---- MODULE Spec2Model ----
(***************************************************************************)
(* A model of the shadcn-ui MCP server: the retrying fetcher, the resource *)
(* cache, the document and page parsers, and the six tool handlers.        *)
(*                                                                         *)
(* Text is modelled as sequences of tokens: a name is a sequence of        *)
(* character runs, a command a sequence of words, a document a sequence of *)
(* lines, each a sequence of words.                                        *)
(***************************************************************************)
EXTENDS Integers, Sequences, FiniteSets, TLC

VARIABLES
    resourceCache,  \* helpers: resourceCache, a map name -> ComponentDocResource
    calls,          \* one record per tool call slot: the handler's position and locals
    remoteRev,      \* revision of the remote site's content
    firstCached,    \* history: the Resource first cached under each name
    fw,             \* a direct fetchWithRetry(url, maxAttempts, initialDelayMs) run
    px              \* a direct application of one parser or derivation to an input

vars == <<resourceCache, calls, remoteRev, firstCached, fw, px>>

(***************************************************************************)
(* Program constants                                                       *)
(***************************************************************************)
RETRY_ATTEMPTS == 3
RETRY_DELAY_MS == 500

\* BLOCK_PAGES, by index
BLOCK_PAGES == <<"blocks/sidebar", "blocks/authentication">>

COMPONENTS_URL == "components"

\* RUNTIME_REPLACEMENTS, as words
RUNTIME_REPLACEMENTS ==
    [pnpm |-> <<"pnpm", "dlx">>, yarn |-> <<"yarn", "dlx">>, bun |-> <<"bunx">>]

(***************************************************************************)
(* Bounds of the model                                                     *)
(***************************************************************************)
\* the direct fetchWithRetry run takes maxAttempts in 1..MaxAttempts
MaxAttempts == 4
\* the remote content has revisions 1..MaxRev
MaxRev == 2
\* the commands the derivation is applied to have at most MaxCmdLen words
MaxCmdLen == 3
\* the block pages the scraper is applied to have at most MaxElements elements
MaxElements == 2
\* the component pages the scraper is applied to have at most MaxAnchors anchors
MaxAnchors == 3
\* the documents the parser is applied to have at most MaxFront frontmatter
\* lines and at most MaxGap empty lines between the frontmatter and the body
MaxFront == 2
MaxGap == 2

\* call slots: Spec runs one tool call at a time, SpecConc two interleaved
AllSlots == {"s1", "s2"}
SeqSlots == {"s1"}

\* failure reasons of one HTTP attempt: a non-success status or a transport failure
FailReasons == {"HTTP error 404: Not Found", "fetch failed"}

\* initial delays tried by the direct fetchWithRetry run
InitialDelays == {RETRY_DELAY_MS, 100}

(***************************************************************************)
(* Names                                                                   *)
(***************************************************************************)
\* runs of characters in [a-zA-Z0-9-_]
AllowedRuns == {"x", "y", "w", "radix-", "r1"}

NameX == <<"x">>          \* a component only
NameY == <<"y">>          \* a component and a block
NameW == <<"w">>          \* a block only
NameBad == <<"x", "/">>   \* holds a character outside [a-zA-Z0-9-_]
NameEmpty == <<>>         \* the empty string

InputNames == {NameEmpty, NameX, NameY, NameW, NameBad}

\* component.replace(/[^a-zA-Z0-9-_]/g, empty)
SanitizeMutNone(name) == name
Sanitize(name) == SelectSeq(name, LAMBDA t : t \in AllowedRuns)

\* id.startsWith(radix-)
StartsWithRadix(id) == Len(id) > 0 /\ id[1] = "radix-"

(***************************************************************************)
(* Runtimes and command derivation                                         *)
(***************************************************************************)
NoRuntime == ""    \* runtime omitted (or the empty string): falsy
PackageManagers == {"npm", "pnpm", "yarn", "bun"}
InputRuntimes == {NoRuntime, "pnpm", "deno"}

validateRuntimeMutAny(runtime) == TRUE
validateRuntime(runtime) == runtime = NoRuntime \/ runtime \in PackageManagers

\* where a word holds the substring npx: <<what precedes it, what follows it>>,
\* or <<>> for a word that does not hold it
NpxIn(word) ==
    CASE word = "npx" -> <<"", "">>
      [] word = "pnpx" -> <<"p", "">>
      [] word = "npx-ui" -> <<"", "-ui">>
      [] OTHER -> <<>>

\* index of the first word of a command that holds npx, 0 when there is none
FirstNpxMutLast(cmd, i) ==
    LET holders == {k \in i..Len(cmd) : NpxIn(cmd[k]) # <<>>} IN
    IF holders = {} THEN 0 ELSE CHOOSE k \in holders : \A j \in holders : j <= k
RECURSIVE FirstNpx(_, _)
FirstNpx(cmd, i) ==
    IF i > Len(cmd) THEN 0
    ELSE IF NpxIn(cmd[i]) # <<>> THEN i
    ELSE FirstNpx(cmd, i + 1)

\* the words that replace a word holding npx
ReplaceNpx(around, replacement) ==
    [k \in 1..Len(replacement) |->
        (IF k = 1 THEN around[1] ELSE "") \o replacement[k]
        \o (IF k = Len(replacement) THEN around[2] ELSE "")]

ReplaceAt(cliCommand, i, replacement) ==
    IF i = 0 THEN cliCommand
    ELSE SubSeq(cliCommand, 1, i - 1)
         \o ReplaceNpx(NpxIn(cliCommand[i]), replacement)
         \o SubSeq(cliCommand, i + 1, Len(cliCommand))

\* cliCommand.replace(npx, RUNTIME_REPLACEMENTS[runtime]): the first occurrence only
getCliCommand(cliCommand, runtime) ==
    IF runtime = NoRuntime \/ runtime = "npm" THEN cliCommand
    ELSE ReplaceAt(cliCommand, FirstNpx(cliCommand, 1), RUNTIME_REPLACEMENTS[runtime])

CommandSet(cmd) ==
    [npm |-> cmd, pnpm |-> getCliCommand(cmd, "pnpm"),
     yarn |-> getCliCommand(cmd, "yarn"), bun |-> getCliCommand(cmd, "bun")]

(***************************************************************************)
(* Responses                                                               *)
(***************************************************************************)
\* createResponse(text, isError, mimeType); a text is a sequence of lines
createResponse(text, isError, mimeType) ==
    [isError |-> isError, text |-> text, mimeType |-> mimeType]

\* createResponse(message, true): a one-line text with the error flag
ErrorResponse(line) == createResponse(<<line>>, TRUE, "")

\* handleError(error, prefix): prefix, then error.message, with the error flag
handleError(error, prefix) == ErrorResponse(<<prefix>> \o error)

(***************************************************************************)
(* fetchWithRetry as a state machine: one record per run                   *)
(*   st      "inflight" (await fetch), "delay" (await setTimeout),         *)
(*           "ok" (returned), "failed" (threw)                             *)
(*   retries, delay   the parameters of the current recursive call         *)
(*   val     <<v>> once returned, err the thrown failure                   *)
(***************************************************************************)
NewFetch(retries, delay) ==
    [st |-> "inflight", retries |-> retries, delay |-> delay, val |-> <<>>, err |-> ""]

\* response.ok: return response
OnSuccess(f, v) == [f EXCEPT !.st = "ok", !.val = <<v>>]

\* catch (error): if (retries <= 1) throw error, else wait delay ms
OnFailureMutOffByOne(f, e) ==
    IF f.retries <= 2 THEN [f EXCEPT !.st = "failed", !.err = e]
    ELSE [f EXCEPT !.st = "delay"]
OnFailureMutOneMore(f, e) ==
    IF f.retries <= 0 THEN [f EXCEPT !.st = "failed", !.err = e]
    ELSE [f EXCEPT !.st = "delay"]
OnFailure(f, e) ==
    IF f.retries <= 1 THEN [f EXCEPT !.st = "failed", !.err = e]
    ELSE [f EXCEPT !.st = "delay"]

\* the timer fired: return fetchWithRetry(url, retries - 1, delay * 2)
OnTimerMutLinear(f) ==
    [f EXCEPT !.st = "inflight", !.retries = f.retries - 1, !.delay = f.delay + f.delay \div 2]
OnTimer(f) ==
    [f EXCEPT !.st = "inflight", !.retries = f.retries - 1, !.delay = f.delay * 2]


(***************************************************************************)
(* The direct fetchWithRetry run: its environment and what it observes     *)
(*   attempts  calls of fetch(url) made so far                             *)
(*   delays    the duration of every timer set, in order                   *)
(*   errs      the failure of every failed attempt, in order               *)
(***************************************************************************)
FwIdle ==
    [pc |-> "idle", f |-> NewFetch(0, 0), maxAttempts |-> 0, initialDelayMs |-> 0,
     attempts |-> 0, delays |-> <<>>, errs |-> <<>>]

\* fetchWithRetry(url, m, d) is called: the first fetch(url) is issued
FwCall(m, d) ==
    /\ fw.pc = "idle"
    /\ fw' = [pc |-> "run", f |-> NewFetch(m, d), maxAttempts |-> m,
              initialDelayMs |-> d, attempts |-> 1, delays |-> <<>>, errs |-> <<>>]
    /\ UNCHANGED <<resourceCache, calls, remoteRev, firstCached, px>>

\* the attempt in flight answers with a success status; its response is
\* identified by the number of the attempt
FwAttemptSucceeds ==
    /\ fw.pc = "run"
    /\ fw.f.st = "inflight"
    /\ fw' = [fw EXCEPT !.f = OnSuccess(fw.f, fw.attempts)]
    /\ UNCHANGED <<resourceCache, calls, remoteRev, firstCached, px>>

\* the attempt in flight fails with reason e; a timer of f.delay is set
\* unless the failure is thrown
FwAttemptFails(e) ==
    /\ fw.pc = "run"
    /\ fw.f.st = "inflight"
    /\ LET g == OnFailure(fw.f, e) IN
       fw' = [fw EXCEPT !.f = g,
                        !.errs = Append(@, e),
                        !.delays = IF g.st = "delay" THEN Append(@, g.delay) ELSE @]
    /\ UNCHANGED <<resourceCache, calls, remoteRev, firstCached, px>>

\* the timer fires: the recursive call issues the next fetch(url)
FwTimerFires ==
    /\ fw.pc = "run"
    /\ fw.f.st = "delay"
    /\ fw' = [fw EXCEPT !.f = OnTimer(fw.f), !.attempts = @ + 1]
    /\ UNCHANGED <<resourceCache, calls, remoteRev, firstCached, px>>


(***************************************************************************)
(* Remote content, by revision.  A component document is a sequence of     *)
(* lines; a rendered page is a sequence of elements.                       *)
(***************************************************************************)
NL == "\n"

\* the markers of a fenced code block: three backticks, bare or followed by bash
Fence == "<fence>"
BashFence == "<fence>bash"

RevWord(rev) == "rev" \o ToString(rev)

\* the raw-content host has a document for these component names only; from
\* revision 2 on it also serves one for w, with an empty body
RemoteComponents == {NameX, NameY}
RemoteComponentsAt(rev) ==
    IF rev = 1 THEN RemoteComponents ELSE RemoteComponents \cup {NameW}

\* ${RAW_GITHUB_URL}/www/content/docs/components/${component}.mdx
RemoteMdx(component, rev) ==
    IF component = NameW THEN <<>>
    ELSE IF component = NameX THEN
        << <<"---">>,
           <<"title:", "X">>,
           IF rev = 1 THEN <<"description:", "\"", "Displays", "x", "\"">>
                      ELSE <<"description:", "Shows", RevWord(rev)>>,
           <<"---">>,
           <<>>,
           <<"Intro", "x">>,
           <<BashFence>>,
           <<"npx", "shadcn@latest", "add", "x">>,
           <<Fence>> >>
    ELSE IF rev = 1 THEN
        << <<"---">>,
           <<"title:", "Y">>,
           <<"---">>,
           <<>>,
           <<"A", "simple", "y.">> >>
    ELSE
        << <<"---">>,
           <<"title:", "Y">>,
           <<"description", ":", "'", "Y", RevWord(rev), "'">>,
           <<"links:">>,
           <<"  ", "doc:", "https://doc/y">>,
           <<"  ", "api:", "https://api/y">>,
           <<"---">>,
           <<>>,
           <<BashFence>>,
           <<"npx", "shadcn@latest", "add", "y">>,
           <<Fence>> >>

\* the elements .container-wrapper.flex-1 div[id] of a block page, with the
\* texts the three nested selectors find in each.  From revision 2 on the
\* element w has no command button.
RemoteBlockPage(i, rev) ==
    IF i = 1 THEN
        << [id |-> NameY, label |-> <<"A", "sidebar">>,
            command |-> <<"npx", "shadcn@latest", "add", "y">>,
            code |-> << <<"export", "Y", RevWord(rev)>> >>],
           [id |-> <<"radix-", "r1">>, label |-> <<>>, command |-> <<>>, code |-> <<>>] >>
    ELSE
        << [id |-> NameW, label |-> <<"A", "login">>,
            command |-> IF rev = 1 THEN <<"npx", "shadcn@latest", "add", "w">> ELSE <<>>,
            code |-> << <<"export", "W", RevWord(rev)>> >>] >>

\* the hrefs of the anchors of ${BASE_URL}/components, each a path of segments
RemoteComponentsPage(rev) ==
    << <<"docs", "components", "y">>,
       <<"docs", "installation">>,
       <<"docs", "components", "x">> >>
    \o (IF rev = 1 THEN <<>> ELSE << <<"docs", "components", "w">> >>)

(***************************************************************************)
(* Document parser                                                         *)
(***************************************************************************)

\* the lines of a text joined by newlines, as one stream of words
RECURSIVE Flatten(_)
Flatten(lines) ==
    IF Len(lines) = 0 THEN <<>>
    ELSE IF Len(lines) = 1 THEN lines[1]
    ELSE lines[1] \o <<NL>> \o Flatten(Tail(lines))

\* least member of a set of indices, 0 when the set is empty
Least(S) == IF S = {} THEN 0 ELSE CHOOSE i \in S : \A j \in S : i <= j

\* String.prototype.trim on a stream of words: newlines at both ends go
RECURSIVE Trim(_)
Trim(s) ==
    IF Len(s) = 0 THEN s
    ELSE IF s[1] = NL THEN Trim(Tail(s))
    ELSE IF s[Len(s)] = NL THEN Trim(SubSeq(s, 1, Len(s) - 1))
    ELSE s

StartsFence(line) == Len(line) > 0 /\ line[1] = "---"

\* FRONTMATTER_REGEX /^---\n([\s\S]*?)\n---/ : match[1], or the empty string without a match
FrontmatterUpTo(mdxContent, k) ==
    IF k = 0 THEN <<>> ELSE SubSeq(mdxContent, 2, k - 1)

FrontmatterOf(mdxContent) ==
    IF Len(mdxContent) < 3 \/ mdxContent[1] # <<"---">> THEN <<>>
    ELSE FrontmatterUpTo(mdxContent,
            Least({j \in 3..Len(mdxContent) : StartsFence(mdxContent[j])}))

IsQuote(t) == t \in {"\"", "'"}

\* \s* from position j of stream s: the first position that is not a newline, 0 when none
SkipSpace(s, j) == Least({i \in j..Len(s) : s[i] # NL})

\* ([^\n]+) from position b: up to the end of the line
LineEnd(s, b) == Least({j \in b..Len(s) : s[j] = NL})
RestOfLineTo(s, b, e) == << SubSeq(s, b, IF e = 0 THEN Len(s) ELSE e - 1) >>
RestOfLine(s, b) == IF b = 0 THEN <<>> ELSE RestOfLineTo(s, b, LineEnd(s, b))

\* the capture of a quoted run, quote ([^quote]+) quote, with the opening quote expected at or after
\* position j of stream s, whitespace skipped: <<capture>> or <<>>
NextQuote(s, q) == Least({i \in (q + 1)..Len(s) : IsQuote(s[i])})
QuotedBetween(s, q, c) ==
    IF c = 0 \/ c = q + 1 THEN <<>> ELSE << SubSeq(s, q + 1, c - 1) >>
QuotedFrom(s, q) ==
    IF q = 0 \/ ~IsQuote(s[q]) THEN <<>> ELSE QuotedBetween(s, q, NextQuote(s, q))
QuotedAt(s, j) == QuotedFrom(s, SkipSpace(s, j))

\* DESCRIPTION_PATTERNS[0]: description:\s* then a quoted run
MatchQuoted(s, i) ==
    IF s[i] = "description:" THEN QuotedAt(s, i + 1) ELSE <<>>

\* DESCRIPTION_PATTERNS[1]: description:\s*([^\n]+)
MatchUnquoted(s, i) ==
    IF s[i] # "description:" THEN <<>> ELSE RestOfLine(s, SkipSpace(s, i + 1))

\* DESCRIPTION_PATTERNS[2]: description\s*:\s* then a quoted run
AfterColon(s, c) ==
    IF c = 0 \/ s[c] # ":" THEN <<>> ELSE QuotedAt(s, c + 1)
MatchSpacedQuoted(s, i) ==
    IF s[i] = "description:" THEN QuotedAt(s, i + 1)
    ELSE IF s[i] # "description" THEN <<>>
    ELSE AfterColon(s, SkipSpace(s, i + 1))

\* DESCRIPTION_PATTERNS, by index
PatternMatchAt(p, s, i) ==
    IF p = 1 THEN MatchQuoted(s, i)
    ELSE IF p = 2 THEN MatchUnquoted(s, i)
    ELSE MatchSpacedQuoted(s, i)

\* frontmatter.match(pattern): the leftmost match's capture, <<capture>> or <<>>
CaptureAt(p, s, i) == IF i = 0 THEN <<>> ELSE PatternMatchAt(p, s, i)
PatternMatch(p, s) ==
    CaptureAt(p, s, Least({j \in 1..Len(s) : PatternMatchAt(p, s, j) # <<>>}))

\* FIRST_PARAGRAPH_REGEX /---\n[\s\S]*?\n---\n\n([^\n]+)/ : <<capture>> or <<>>.
\* It opens at a line ending in ---, and closes at the first later line ---
\* that an empty line and a non-empty line follow.
ClosesAt(mdxContent, b) ==
    /\ b + 2 <= Len(mdxContent)
    /\ mdxContent[b] = <<"---">>
    /\ mdxContent[b + 1] = <<>>
    /\ Len(mdxContent[b + 2]) > 0
FirstClose(mdxContent, a) ==
    Least({b \in (a + 2)..Len(mdxContent) : ClosesAt(mdxContent, b)})
OpensAt(mdxContent, a) ==
    /\ Len(mdxContent[a]) > 0
    /\ mdxContent[a][Len(mdxContent[a])] = "---"
    /\ FirstClose(mdxContent, a) # 0
ParagraphAfter(mdxContent, b) == << mdxContent[b + 2] >>
ParagraphFrom(mdxContent, a) ==
    IF a = 0 THEN <<>> ELSE ParagraphAfter(mdxContent, FirstClose(mdxContent, a))
FirstParagraph(mdxContent) ==
    ParagraphFrom(mdxContent, Least({a \in 1..Len(mdxContent) : OpensAt(mdxContent, a)}))

\* extractDescription(frontmatter, mdxContent): the capture of the first
\* pattern that matches the frontmatter, else the first paragraph, trimmed
FirstParagraphOr(firstParagraphMatch) ==
    IF firstParagraphMatch # <<>> THEN Trim(firstParagraphMatch[1]) ELSE <<>>
DescriptionBy(p, s, mdxContent) ==
    IF p # 0 THEN Trim(PatternMatch(p, s)[1])
    ELSE FirstParagraphOr(FirstParagraph(mdxContent))
DescriptionIn(s, mdxContent) ==
    DescriptionBy(Least({q \in 1..3 : PatternMatch(q, s) # <<>>}), s, mdxContent)
extractDescription(frontmatter, mdxContent) ==
    DescriptionIn(Flatten(frontmatter), mdxContent)

\* linksContent.match(/key\s*([^\n]+)/): <<value>> or <<>>
ValueAfter(s, i) == IF i = 0 THEN <<>> ELSE RestOfLine(s, SkipSpace(s, i + 1))
KeyValueIn(s, key) ==
    ValueAfter(s, Least({i \in 1..Len(s) : s[i] = key /\ SkipSpace(s, i + 1) # 0}))
KeyValue(lines, key) == KeyValueIn(Flatten(lines), key)

\* extractLinks(frontmatter): LINKS_REGEX /links:\n([\s\S]*?)(?=\n\w|$)/ captures
\* the lines after a links: line up to the next line that is not indented;
\* then the doc: and api: entries of the captured block, doc first
IsLinksLine(frontmatter, i) ==
    /\ Len(frontmatter[i]) > 0
    /\ frontmatter[i][Len(frontmatter[i])] = "links:"
    /\ i < Len(frontmatter)
IsTopLevel(line) == Len(line) > 0 /\ line[1] # "  "
LinkEntry(linkMatch) ==
    IF linkMatch # <<>> THEN <<Trim(linkMatch[1])>> ELSE <<>>
LinksIn(linksContent) ==
    LinkEntry(KeyValue(linksContent, "doc:")) \o LinkEntry(KeyValue(linksContent, "api:"))
LinksBlock(frontmatter, l, e) ==
    SubSeq(frontmatter, l + 1, IF e = 0 THEN Len(frontmatter) ELSE e - 1)
LinksAfter(frontmatter, l) ==
    IF l = 0 THEN <<>>
    ELSE LinksIn(LinksBlock(frontmatter, l,
            Least({j \in (l + 2)..Len(frontmatter) : IsTopLevel(frontmatter[j])})))
extractLinks(frontmatter) ==
    LinksAfter(frontmatter,
        Least({i \in 1..Len(frontmatter) : IsLinksLine(frontmatter, i)}))

\* CLI_COMMAND_REGEX: a bash fence line, a line npx shadcn@latest add [^\n]+,
\* and a closing fence; the command is the match with the fence markers
\* stripped and the rest trimmed: <<command>> or <<>>
IsCliCommandAt(mdxContent, i) ==
    /\ i + 2 <= Len(mdxContent)
    /\ Len(mdxContent[i]) > 0
    /\ mdxContent[i][Len(mdxContent[i])] = BashFence
    /\ Len(mdxContent[i + 1]) > 3
    /\ SubSeq(mdxContent[i + 1], 1, 3) = <<"npx", "shadcn@latest", "add">>
    /\ Len(mdxContent[i + 2]) > 0
    /\ mdxContent[i + 2][1] = Fence
CommandLine(mdxContent, i) == IF i = 0 THEN <<>> ELSE << mdxContent[i + 1] >>
CliCommandOf(mdxContent) ==
    CommandLine(mdxContent, Least({i \in 1..Len(mdxContent) : IsCliCommandAt(mdxContent, i)}))

\* if (cliCommand) commands = [{npm, pnpm, yarn, bun}]
CommandsOf(cliCommand) ==
    IF cliCommand # <<>> THEN <<CommandSet(cliCommand[1])>> ELSE <<>>

\* transformComponentData(mdxContent) for component: the one Resource built
ResourceOfMutTitle(component, mdxContent, frontmatter) ==
    << [name |-> <<"title">> \o component,
        description |-> extractDescription(frontmatter, mdxContent),
        doc |-> mdxContent,
        commands |-> CommandsOf(CliCommandOf(mdxContent)),
        links |-> extractLinks(frontmatter),
        isBlock |-> FALSE] >>
ResourceOf(component, mdxContent, frontmatter) ==
    << [name |-> component,
        description |-> extractDescription(frontmatter, mdxContent),
        doc |-> mdxContent,
        commands |-> CommandsOf(CliCommandOf(mdxContent)),
        links |-> extractLinks(frontmatter),
        isBlock |-> FALSE] >>
transformComponentData(component, mdxContent) ==
    ResourceOf(component, mdxContent, FrontmatterOf(mdxContent))

(***************************************************************************)
(* HTML scraper                                                            *)
(***************************************************************************)
\* parseBlocksFromPage: the Blocks of one fetched page
RECURSIVE parseBlocksFromPage(_)
parseBlocksFromPage(elements) ==
    IF Len(elements) = 0 THEN <<>>
    ELSE LET el == elements[1] IN
         (IF el.id # <<>> /\ ~StartsWithRadix(el.id)
          THEN << [name |-> el.id, description |-> el.label,
                   command |-> el.command, doc |-> el.code] >>
          ELSE <<>>)
         \o parseBlocksFromPage(Tail(elements))

\* blockPages.flat()
RECURSIVE Flat(_)
Flat(lists) == IF Len(lists) = 0 THEN <<>> ELSE lists[1] \o Flat(Tail(lists))

\* transformBlocks(blockPages): one Resource per Block, in page order
transformBlocks(blockPages) ==
    LET allBlocks == Flat(blockPages) IN
    [k \in 1..Len(allBlocks) |->
        [name |-> allBlocks[k].name,
         description |-> allBlocks[k].description,
         doc |-> allBlocks[k].doc,
         commands |-> <<CommandSet(allBlocks[k].command)>>,
         links |-> <<>>,
         isBlock |-> TRUE]]

\* UTF-16 order of the words used in names
WordCode(w) ==
    CASE w = "w" -> 119 [] w = "x" -> 120 [] w = "y" -> 121
      [] w = "docs" -> 100 [] w = "components" -> 99 [] w = "installation" -> 105
      [] OTHER -> 0

\* Array.prototype.sort(): insertion into an ascending sequence of words
InsertSortedMutFront(w, sorted) == <<w>> \o sorted
RECURSIVE InsertSorted(_, _)
InsertSorted(w, sorted) ==
    IF Len(sorted) = 0 THEN <<w>>
    ELSE IF WordCode(w) < WordCode(sorted[1]) THEN <<w>> \o sorted
    ELSE <<sorted[1]>> \o InsertSorted(w, Tail(sorted))

RECURSIVE SortWords(_)
SortWords(ws) ==
    IF Len(ws) = 0 THEN <<>> ELSE InsertSorted(ws[Len(ws)], SortWords(SubSeq(ws, 1, Len(ws) - 1)))

\* parseComponentsFromHtml(html), html given by its anchors' hrefs:
\* [threw |-> TRUE] on an empty html, else the last segments of the hrefs
\* under /docs/components/, the empty ones dropped (filter(Boolean)), sorted
parseComponentsFromHtmlMutNoGuard(html) ==
    [threw |-> FALSE, names |-> <<>>]
parseComponentsFromHtml(html) ==
    IF Len(html) = 0 THEN [threw |-> TRUE, names |-> <<>>]
    ELSE LET hits == SelectSeq(html, LAMBDA h :
                        /\ Len(h) >= 3
                        /\ SubSeq(h, 1, 2) = <<"docs", "components">>
                        /\ h[Len(h)] # "")
         IN  [threw |-> FALSE,
              names |-> SortWords([k \in 1..Len(hits) |-> hits[k][Len(hits[k])]])]


(***************************************************************************)
(* The cache                                                               *)
(***************************************************************************)
\* resourceCache.set(key, value)
CacheSetMutKey(cache, key, value) ==
    [k \in DOMAIN cache \cup {<<"blocks">>} |-> IF k = <<"blocks">> THEN value ELSE cache[k]]
CacheSet(cache, key, value) ==
    [k \in DOMAIN cache \cup {key} |-> IF k = key THEN value ELSE cache[k]]

\* transformedData.forEach(data => resourceCache.set(data.name, data))
RECURSIVE CacheSetAll(_, _)
RECURSIVE CacheSetAllMutReplace(_, _)
CacheSetAllMutReplace(cache, resources) ==
    IF Len(resources) = 0 THEN <<>>
    ELSE CacheSet(CacheSetAllMutReplace(cache, SubSeq(resources, 1, Len(resources) - 1)),
                  resources[Len(resources)].name, resources[Len(resources)])
CacheSetAll(cache, resources) ==
    IF Len(resources) = 0 THEN cache
    ELSE CacheSetAll(CacheSet(cache, resources[1].name, resources[1]), Tail(resources))

\* history: the value each name was first cached with
RECURSIVE RecordFirst(_, _)
RecordFirst(first, resources) ==
    IF Len(resources) = 0 THEN first
    ELSE RecordFirst(IF resources[1].name \in DOMAIN first THEN first
                     ELSE CacheSet(first, resources[1].name, resources[1]),
                     Tail(resources))

NamesOf(resources) == {resources[k].name : k \in 1..Len(resources)}

(***************************************************************************)
(* Tool handlers                                                           *)
(***************************************************************************)
ComponentTools == {"get-component-docs", "install-component"}
BlockTools == {"get-block-docs", "install-blocks"}
LookupTools == ComponentTools \cup BlockTools
InstallTools == {"install-component", "install-blocks"}
\* the tools that run the block aggregate on a miss
AggregateTools == BlockTools \cup {"list-blocks"}
Tools == LookupTools \cup {"list-components", "list-blocks"}

\* the prefix each handler's catch block passes to handleError
ErrorPrefix(tool) ==
    CASE tool = "list-components" -> "Error fetching components list"
      [] tool = "get-component-docs" -> "Error fetching component documentation"
      [] tool = "install-component" -> "Error generating installation command"
      [] tool = "list-blocks" -> "Error fetching blocks"
      [] tool = "get-block-docs" -> "Error fetching block documentation"
      [] OTHER -> "Error generating installation command"

\* how a piece of handler code ends: it returns a response or throws an error
Returned(resp) == [threw |-> FALSE, resp |-> <<resp>>, err |-> <<>>]
Threw(err) == [threw |-> TRUE, resp |-> <<>>, err |-> err]

\* each handler's try { ... } catch (error) { return handleError(error, prefix) }
TryCatchMutRethrow(tool, outcome) == outcome
TryCatch(tool, outcome) ==
    IF outcome.threw THEN Returned(handleError(outcome.err, ErrorPrefix(tool)))
    ELSE outcome

\* getComponentDocs once componentData is there
DocsResultMutNeedsDescription(component, componentData) ==
    IF componentData.description = <<>>
    THEN Returned(ErrorResponse(<<"No documentation found for component">> \o component))
    ELSE Returned(createResponse(componentData.doc, FALSE, "text/markdown"))
DocsResult(component, componentData) ==
    IF componentData.description = <<>> /\ componentData.doc = <<>>
    THEN Returned(ErrorResponse(<<"No documentation found for component">> \o component))
    ELSE Returned(createResponse(componentData.doc, FALSE, "text/markdown"))

\* installComponent and installBlock once the Resource is there
InstallResult(what, name, data, runtime) ==
    IF data.commands = <<>>
    THEN Returned(ErrorResponse(<<"No installation command found for", what>> \o name))
    ELSE LET commands == data.commands[1]
             command == IF runtime # NoRuntime THEN commands[runtime] ELSE commands.npm
         IN  IF command = <<>>
             THEN Returned(ErrorResponse(<<"No installation command found for runtime", runtime>>))
             ELSE Returned(createResponse(<<command>>, FALSE, ""))

\* JSON.stringify(resource, null, 2): one line per defined property, in the
\* order the Resource was built with; an undefined property is left out
Stringify(resource) ==
    << <<"name:">> \o resource.name,
       <<"description:">> \o resource.description,
       <<"doc:">> \o Flatten(resource.doc) >>
    \o (IF resource.commands = <<>> THEN <<>>
        ELSE << <<"commands:">>,
                <<"npm:">> \o resource.commands[1].npm,
                <<"pnpm:">> \o resource.commands[1].pnpm,
                <<"yarn:">> \o resource.commands[1].yarn,
                <<"bun:">> \o resource.commands[1].bun >>)
    \o (IF resource.links = <<>> THEN <<>>
        ELSE << <<"links:">> \o Flatten(resource.links) >>)
    \o << <<"isBlock:", IF resource.isBlock THEN "true" ELSE "false">> >>

\* getBlockDocs once getBlockData returned blockData
BlockDocsResult(block, blockData) ==
    IF blockData.doc = <<>>
    THEN Returned(ErrorResponse(<<"No documentation found for block">> \o block))
    ELSE Returned(createResponse(Stringify(blockData), FALSE, "application/json"))

\* what a lookup tool answers once it holds the Resource
LookupResult(tool, name, runtime, data) ==
    CASE tool = "get-component-docs" -> DocsResult(name, data)
      [] tool = "install-component" -> InstallResult("component", name, data, runtime)
      [] tool = "get-block-docs" -> BlockDocsResult(name, data)
      [] OTHER -> InstallResult("block", name, data, runtime)

InvalidRuntime(runtime) ==
    Returned(ErrorResponse(<<"Invalid runtime:", runtime>>))

\* the checks a handler makes before it looks anything up: <<outcome>> when one
\* of them ends the call, <<>> when all pass
Validate(tool, name, runtime) ==
    CASE tool = "get-component-docs" ->
            IF name = <<>>
            THEN <<Returned(ErrorResponse(<<"Component name is required">>))>>
            ELSE IF Sanitize(name) # name
            THEN <<Threw(<<"Invalid component name:">> \o name)>>
            ELSE <<>>
      [] tool = "install-component" ->
            IF name = <<>>
            THEN <<Returned(ErrorResponse(<<"Component name is required">>))>>
            ELSE IF runtime # NoRuntime /\ ~validateRuntime(runtime)
            THEN <<InvalidRuntime(runtime)>>
            ELSE IF Sanitize(name) # name
            THEN <<Threw(<<"Invalid component name:">> \o name)>>
            ELSE <<>>
      [] tool = "get-block-docs" ->
            IF name = <<>>
            THEN <<Returned(ErrorResponse(<<"Block name is required">>))>>
            ELSE <<>>
      [] tool = "install-blocks" ->
            IF runtime # NoRuntime /\ ~validateRuntime(runtime)
            THEN <<InvalidRuntime(runtime)>>
            ELSE IF name = <<>>
            THEN <<Returned(ErrorResponse(<<"Block name is required">>))>>
            ELSE <<>>
      [] OTHER -> <<>>

(***************************************************************************)
(* A tool call                                                             *)
(*   pc       "idle", "run" (awaiting the network or a timer), "done"      *)
(*   f        the fetchWithRetry runs of the call: one, or one per page    *)
(*   body     per run: "" pending, "read" once response.text() resolved,   *)
(*            "lost" when it rejected                                       *)
(*   blocks   per page: the Blocks parsed from it                          *)
(*   data     <<Resource>> the lookup obtained, resp <<response>> returned *)
(*   escaped  an exception left the handler                                *)
(*   hit, net, wrote   history: the lookup was served from the cache; the  *)
(*            HTTP requests issued; the names the call wrote to the cache  *)
(***************************************************************************)
IdleCall ==
    [pc |-> "idle", tool |-> "", name |-> <<>>, runtime |-> NoRuntime,
     f |-> <<>>, body |-> <<>>, blocks |-> <<>>, data |-> <<>>, resp |-> <<>>,
     escaped |-> FALSE, hit |-> FALSE, net |-> 0, wrote |-> {}]

NewCall(tool, name, runtime) ==
    [IdleCall EXCEPT !.tool = tool, !.name = name, !.runtime = runtime]

\* the handler ends with outcome
Settle(c, outcome) ==
    LET o == TryCatch(c.tool, outcome) IN
    [c EXCEPT !.pc = "done", !.resp = o.resp, !.escaped = o.threw]

\* the await fetches a handler starts on a miss
StartFetchesMutSerial(c) ==
    [c EXCEPT !.pc = "run",
              !.f = <<NewFetch(RETRY_ATTEMPTS, RETRY_DELAY_MS)>>,
              !.body = <<"">>,
              !.blocks = << <<>> >>,
              !.net = 1]
StartFetches(c) ==
    LET n == IF c.tool \in AggregateTools THEN Len(BLOCK_PAGES) ELSE 1 IN
    [c EXCEPT !.pc = "run",
              !.f = [i \in 1..n |-> NewFetch(RETRY_ATTEMPTS, RETRY_DELAY_MS)],
              !.body = [i \in 1..n |-> ""],
              !.blocks = [i \in 1..n |-> <<>>],
              !.net = n]

\* resourceCache.has(component) / resourceCache.get(block) is truthy
CacheHasMutNever(cache, name) == FALSE
CacheHas(cache, name) == name \in DOMAIN cache

\* the handler runs up to its first await on the network
BeginMutTyped(cache, tool, name, runtime) ==
    IF Validate(tool, name, runtime) # <<>>
    THEN Settle(NewCall(tool, name, runtime), Validate(tool, name, runtime)[1])
    ELSE IF /\ tool \in LookupTools
            /\ CacheHas(cache, name)
            /\ cache[name].isBlock <=> tool \in BlockTools
    THEN Settle([NewCall(tool, name, runtime) EXCEPT !.hit = TRUE, !.data = <<cache[name]>>],
                LookupResult(tool, name, runtime, cache[name]))
    ELSE StartFetches(NewCall(tool, name, runtime))
Begin(cache, tool, name, runtime) ==
    LET c == NewCall(tool, name, runtime)
        v == Validate(tool, name, runtime)
    IN  IF v # <<>> THEN Settle(c, v[1])
        ELSE IF tool \in LookupTools /\ CacheHas(cache, name)
        THEN Settle([c EXCEPT !.hit = TRUE, !.data = <<cache[name]>>],
                    LookupResult(tool, name, runtime, cache[name]))
        ELSE StartFetches(c)

\* a page (or document) of the call: resolved, rejected, or pending
Resolved(c, i) == c.f[i].st = "ok" /\ c.body[i] = "read"
Rejected(c, i) == c.f[i].st = "failed" \/ c.body[i] = "lost"

\* Promise.all over the pages: rejected with the first rejection, resolved
\* when every page is
PromiseAllMutSettled(c) ==
    IF \A i \in DOMAIN c.f : Resolved(c, i) \/ Rejected(c, i) THEN "resolved"
    ELSE "pending"
PromiseAll(c) ==
    IF \E i \in DOMAIN c.f : Rejected(c, i) THEN "rejected"
    ELSE IF \A i \in DOMAIN c.f : Resolved(c, i) THEN "resolved"
    ELSE "pending"

\* the message of the error page i of call c rejects with, as the handler sees it
FetchError(c, i, reason) ==
    CASE c.tool = "list-components" -> <<reason>>
      [] c.tool \in ComponentTools ->
            <<"Failed to fetch and transform data for key">> \o c.name \o <<reason>>
      [] OTHER ->
            <<"Failed to fetch and transform data for key", "blocks",
              "Failed to parse blocks from", BLOCK_PAGES[i], reason>>


\* what the handler awaits: the aggregate's Promise.all, or its one fetch
AwaitedMutNoOkCheck(c) ==
    IF c.tool \in AggregateTools THEN PromiseAll(c)
    ELSE IF Rejected(c, 1) \/ Resolved(c, 1) THEN "resolved"
    ELSE "pending"
Awaited(c) ==
    IF c.tool \in AggregateTools THEN PromiseAll(c)
    ELSE IF Rejected(c, 1) THEN "rejected"
    ELSE IF Resolved(c, 1) THEN "resolved"
    ELSE "pending"

\* fetchAndCache(key, fetchFn, transformFn) from the point fetchFn resolved:
\* the Resources built from what was fetched
\* transformComponentData of every document the raw-content host can serve
RemoteResources ==
    [component \in InputNames, rev \in 1..MaxRev |->
        transformComponentData(component, RemoteMdx(component, rev))]
Transformed(c, rev) ==
    IF c.tool \in ComponentTools THEN RemoteResources[c.name, rev]
    ELSE transformBlocks(c.blocks)

\* the handler's code after its await resolved, the cache already written
AnswerMutRefetch(c, cache, resources) ==
    IF c.tool \in BlockTools /\ ~CacheHas(cache, c.name)
    THEN [StartFetches(c) EXCEPT !.net = c.net + Len(BLOCK_PAGES)]
    ELSE IF c.tool = "list-blocks"
    THEN Settle(c, Returned(createResponse(
                [k \in 1..Len(resources) |-> resources[k].name], FALSE, "")))
    ELSE IF c.tool \in ComponentTools
    THEN Settle([c EXCEPT !.data = <<resources[1]>>],
                LookupResult(c.tool, c.name, c.runtime, resources[1]))
    ELSE Settle([c EXCEPT !.data = <<cache[c.name]>>],
                LookupResult(c.tool, c.name, c.runtime, cache[c.name]))
Answer(c, cache, resources) ==
    CASE c.tool = "list-blocks" ->
            Settle(c, Returned(createResponse(
                [k \in 1..Len(resources) |-> resources[k].name], FALSE, "")))
      [] c.tool \in ComponentTools ->
            Settle([c EXCEPT !.data = <<resources[1]>>],
                   LookupResult(c.tool, c.name, c.runtime, resources[1]))
      [] OTHER ->
            \* getBlockData reads the cache again
            IF CacheHas(cache, c.name)
            THEN Settle([c EXCEPT !.data = <<cache[c.name]>>],
                        LookupResult(c.tool, c.name, c.runtime, cache[c.name]))
            ELSE Settle(c, Returned(ErrorResponse(<<"Block not found. Use list-blocks to see available blocks.">>
                        \o c.name)))

\* listComponents after its fetch resolved, r what parseComponentsFromHtml gave
ListComponentsAnswerOf(c, r) ==
    IF r.threw THEN Settle(c, Threw(<<"Invalid HTML content">>))
    ELSE Settle(c, Returned(createResponse([k \in 1..Len(r.names) |-> <<r.names[k]>>], FALSE, "")))
ListComponentsAnswer(c, rev) ==
    ListComponentsAnswerOf(c, parseComponentsFromHtml(RemoteComponentsPage(rev)))

\* fetchAndCache after fetchFn resolved: every Resource built is stored
\* under its name, and the handler goes on with them
StoreAndAnswer(c, written, first, resources) ==
    [c |-> Answer([c EXCEPT !.wrote = NamesOf(resources)], written, resources),
     cache |-> written,
     first |-> RecordFirst(first, resources)]
Store(c, cache, first, resources) ==
    StoreAndAnswer(c, CacheSetAll(cache, resources), first, resources)

\* the call after a network event on its page i: the continuation of whatever
\* was awaited, run to the end of the handler
ContinueMutPartial(c, cache, first, rev, i, reason) ==
    IF Awaited(c) = "pending"
    THEN [c |-> c, cache |-> cache, first |-> first]
    ELSE IF Awaited(c) = "rejected"
    THEN [c |-> Settle(c, Threw(FetchError(c, i, reason))),
          cache |-> CacheSetAll(cache, transformBlocks(c.blocks)), first |-> first]
    ELSE IF c.tool = "list-components"
    THEN [c |-> ListComponentsAnswer(c, rev), cache |-> cache, first |-> first]
    ELSE Store(c, cache, first, Transformed(c, rev))
Continue(c, cache, first, rev, i, reason) ==
    IF Awaited(c) = "pending"
    THEN [c |-> c, cache |-> cache, first |-> first]
    ELSE IF Awaited(c) = "rejected"
    THEN [c |-> Settle(c, Threw(FetchError(c, i, reason))), cache |-> cache, first |-> first]
    ELSE IF c.tool = "list-components"
    THEN [c |-> ListComponentsAnswer(c, rev), cache |-> cache, first |-> first]
    ELSE Store(c, cache, first, Transformed(c, rev))

\* the remote has something to answer the request of page i with
RemoteHas(c, i) == c.tool \in ComponentTools => c.name \in RemoteComponentsAt(remoteRev)

\* the state after slot s went on to r
Becomes(s, r) ==
    /\ calls' = [calls EXCEPT ![s] = r.c]
    /\ resourceCache' = r.cache
    /\ firstCached' = r.first
    /\ UNCHANGED <<remoteRev, fw, px>>

Step(s, c, i, reason) ==
    \E d \in {c} :
        \E r \in {Continue(d, resourceCache, firstCached, remoteRev, i, reason)} :
            Becomes(s, r)

InFlight(s, i) ==
    /\ calls[s].pc = "run"
    /\ i \in DOMAIN calls[s].f
    /\ calls[s].f[i].st = "inflight"

(***************************************************************************)
(* Direct applications of the parsers and of the command derivation:       *)
(*   op   the function applied, in its input, out what it returned         *)
(***************************************************************************)
PxIdle == [op |-> "idle"]

\* the words commands are made of; two of them hold npx inside
CmdWords == {"npx", "add", "x", "npx-ui", "pnpx"}

RECURSIVE SeqsUpTo(_, _)
SeqsUpTo(S, n) ==
    IF n = 0 THEN {<<>>}
    ELSE LET shorter == SeqsUpTo(S, n - 1) IN
         shorter \cup {Append(q, e) : q \in shorter, e \in S}

\* getCliCommand(cmd, runtime) is applied
PxGetCliCommand(cmd, runtime) ==
    /\ px.op = "idle"
    /\ px' = [op |-> "getCliCommand", cmd |-> cmd, runtime |-> runtime,
              out |-> getCliCommand(cmd, runtime)]
    /\ UNCHANGED <<resourceCache, calls, remoteRev, firstCached, fw>>

\* the elements div[id] a block page can hold: the id empty, a name or a
\* toolkit decoy; the command button and the code sample there or not
PageElements ==
    [id : {<<>>, NameY, <<"radix-", "r1">>},
     label : {<<"A", "sidebar">>},
     command : {<<>>, <<"npx", "shadcn@latest", "add", "y">>},
     code : {<<>>, << <<"export", "Y">> >>}]

\* a call of the tool with its fetches started
Started(tool, name) == StartFetches(NewCall(tool, name, NoRuntime))

\* the pages of list-blocks once read, the first holding elements and the
\* others none
PagesRead(c, elements) ==
    [c EXCEPT !.blocks = [i \in DOMAIN c.f |->
                            IF i = 1 THEN parseBlocksFromPage(elements) ELSE <<>>]]
BlocksListed(c) == Store(c, <<>>, <<>>, transformBlocks(c.blocks)).c

\* parseBlocksFromPage is applied to a fetched page, and list-blocks goes on
\* with what it returned
PxParseBlocks(elements) ==
    /\ px.op = "idle"
    /\ px' = [op |-> "parseBlocksFromPage", elements |-> elements,
              out |-> parseBlocksFromPage(elements),
              call |-> BlocksListed(PagesRead(Started("list-blocks", NameEmpty), elements))]
    /\ UNCHANGED <<resourceCache, calls, remoteRev, firstCached, fw>>

\* the hrefs a components page can hold: two components, a page outside
\* /docs/components/, the bare directory, a nested path
Hrefs ==
    { <<"docs", "components", "x">>, <<"docs", "components", "y">>,
      <<"docs", "installation">>, <<"docs", "components", "">>,
      <<"docs", "components", "y", "w">> }

\* parseComponentsFromHtml is applied to a fetched page, and listComponents
\* goes on with what it returned
PxParseComponents(html) ==
    /\ px.op = "idle"
    /\ px' = [op |-> "parseComponentsFromHtml", html |-> html,
              out |-> parseComponentsFromHtml(html),
              call |-> ListComponentsAnswerOf(Started("list-components", NameEmpty),
                                              parseComponentsFromHtml(html))]
    /\ UNCHANGED <<resourceCache, calls, remoteRev, firstCached, fw>>

\* the lines a frontmatter can hold: a title, and a description in each of
\* the three notations
FrontLines ==
    { <<"title:", "X">>,
      <<"description:", "\"", "Displays", "x", "\"">>,
      <<"description:", "Shows", "x">>,
      <<"description", ":", "'", "Y", "'">> }
Fronts == SeqsUpTo(FrontLines, MaxFront) \ {<<>>}
\* the body of a document: none, or one line
Bodies == {<<>>, << <<"Intro", "x">> >>}

\* the document with this frontmatter, gap empty lines, and the body
Layout(front, gap, body) ==
    << <<"---">> >> \o front \o << <<"---">> >> \o [k \in 1..gap |-> <<>>] \o body

\* the documents a component can have: those laid out as above, an empty
\* one, and one without frontmatter
Documents ==
    {Layout(front, gap, body) : front \in Fronts, gap \in {1}, body \in Bodies}
        \cup {<<>>, << <<"Plain", "x">> >>}

\* extractDescription is applied as transformComponentData applies it
PxExtractDescription(front, gap, body) ==
    /\ px.op = "idle"
    /\ px' = [op |-> "extractDescription", front |-> front, gap |-> gap, body |-> body,
              out |-> extractDescription(FrontmatterOf(Layout(front, gap, body)),
                                         Layout(front, gap, body))]
    /\ UNCHANGED <<resourceCache, calls, remoteRev, firstCached, fw>>

\* the document of a component arrives, and fetchAndCache and getComponentDocs
\* go on with it
PxGetComponentDocs(component, mdxContent) ==
    /\ px.op = "idle"
    /\ px' = [op |-> "getComponentDocs", component |-> component, mdxContent |-> mdxContent,
              call |-> Store(Started("get-component-docs", component), <<>>, <<>>,
                             transformComponentData(component, mdxContent)).c]
    /\ UNCHANGED <<resourceCache, calls, remoteRev, firstCached, fw>>

(***************************************************************************)
(* Actions                                                                 *)
(***************************************************************************)
\* a tool call arrives and runs to its first await.  A slot whose call is
\* done is reused.  The page fetches a rejected aggregate leaves in flight
\* stay as they were when the handler returned: the program discards
\* whatever they produce, so their further steps are not modelled.
Call(s, tool, name, runtime) ==
    /\ calls[s].pc \in {"idle", "done"}
    /\ tool \in LookupTools \/ name = NameEmpty
    /\ tool \in InstallTools \/ runtime = NoRuntime
    /\ calls' = [calls EXCEPT ![s] = Begin(resourceCache, tool, name, runtime)]
    /\ UNCHANGED <<resourceCache, remoteRev, firstCached, fw, px>>

\* the request of page i answers with a success status and its body is read
FetchSucceeds(s, i) ==
    /\ InFlight(s, i)
    /\ RemoteHas(calls[s], i)
    /\ LET c == calls[s] IN
       Step(s, [c EXCEPT !.f[i] = OnSuccess(@, "response"),
                         !.body[i] = "read",
                         !.blocks[i] = IF c.tool \in AggregateTools
                                       THEN parseBlocksFromPage(RemoteBlockPage(i, remoteRev))
                                       ELSE <<>>],
            i, "")

\* the request answers with a success status but response.text() rejects
BodyFails(s, i) ==
    /\ InFlight(s, i)
    /\ RemoteHas(calls[s], i)
    /\ LET c == calls[s] IN
       Step(s, [c EXCEPT !.f[i] = OnSuccess(@, "response"), !.body[i] = "lost"],
            i, "terminated")

\* the request fails: a non-success status or a transport failure
FetchFails(s, i, e) ==
    /\ InFlight(s, i)
    /\ Step(s, [calls[s] EXCEPT !.f[i] = OnFailure(@, e)], i, e)

\* the retry timer of page i fires and the next request is issued
TimerFires(s, i) ==
    /\ calls[s].pc = "run"
    /\ i \in DOMAIN calls[s].f
    /\ calls[s].f[i].st = "delay"
    /\ calls' = [calls EXCEPT ![s].f[i] = OnTimer(@), ![s].net = @ + 1]
    /\ UNCHANGED <<resourceCache, remoteRev, firstCached, fw, px>>

\* the remote site publishes new content
RemoteChange ==
    /\ remoteRev < MaxRev
    /\ remoteRev' = remoteRev + 1
    /\ UNCHANGED <<resourceCache, calls, firstCached, fw, px>>

Init ==
    /\ resourceCache = <<>>
    /\ calls = [s \in AllSlots |-> IdleCall]
    /\ remoteRev = 1
    /\ firstCached = <<>>
    /\ fw = FwIdle
    /\ px = PxIdle

Pages == 1..Len(BLOCK_PAGES)

\* tool calls one at a time, against a remote whose content changes
Next ==
    \/ \E s \in SeqSlots, tool \in Tools, name \in InputNames, runtime \in InputRuntimes :
          Call(s, tool, name, runtime)
    \/ \E s \in SeqSlots, i \in Pages : FetchSucceeds(s, i)
    \/ \E s \in SeqSlots, i \in Pages : BodyFails(s, i)
    \/ \E s \in SeqSlots, i \in Pages, e \in FailReasons : FetchFails(s, i, e)
    \/ \E s \in SeqSlots, i \in Pages : TimerFires(s, i)
    \/ RemoteChange

Spec == Init /\ [][Next]_vars

\* the HTTP request of page i of the call of slot s completes: with a body,
\* with a body that cannot be read, or with a failure
Completion(s, i) ==
    \/ FetchSucceeds(s, i)
    \/ BodyFails(s, i)
    \/ \E e \in FailReasons : FetchFails(s, i, e)

\* every request issued completes, and every timer set by setTimeout fires
Fairness ==
    \A s \in SeqSlots : \A i \in Pages :
        WF_vars(Completion(s, i)) /\ WF_vars(TimerFires(s, i))

\* tool calls one at a time with the runtime omitted, against a remote whose
\* content does not change
LiveNames == {NameEmpty, NameX, NameY}

NextLive ==
    \/ \E s \in SeqSlots, tool \in Tools, name \in LiveNames : Call(s, tool, name, NoRuntime)
    \/ \E s \in SeqSlots, i \in Pages : FetchSucceeds(s, i)
    \/ \E s \in SeqSlots, i \in Pages : BodyFails(s, i)
    \/ \E s \in SeqSlots, i \in Pages, e \in FailReasons : FetchFails(s, i, e)
    \/ \E s \in SeqSlots, i \in Pages : TimerFires(s, i)

SpecLive == Init /\ [][NextLive]_vars /\ Fairness

\* fetchWithRetry alone, for every maxAttempts and initial delay of the bounds
NextFetch ==
    \/ \E m \in 1..MaxAttempts, d \in InitialDelays : FwCall(m, d)
    \/ FwAttemptSucceeds
    \/ \E e \in FailReasons : FwAttemptFails(e)
    \/ FwTimerFires

SpecFetch == Init /\ [][NextFetch]_vars


\* two interleaved lookups, against a remote whose content does not change
ConcTools == {"get-component-docs", "get-block-docs"}
ConcNames == {NameX, NameY, NameW}
ConcReasons == {"fetch failed"}

NextConc ==
    \/ \E s \in AllSlots, tool \in ConcTools, name \in ConcNames :
          Call(s, tool, name, NoRuntime)
    \/ \E s \in AllSlots, i \in Pages : FetchSucceeds(s, i)
    \/ \E s \in AllSlots, i \in Pages, e \in ConcReasons : FetchFails(s, i, e)
    \/ \E s \in AllSlots, i \in Pages : TimerFires(s, i)

SpecConc == Init /\ [][NextConc]_vars


\* the parsers and the command derivation alone, on every input of the bounds
NextPure ==
    \/ \E cmd \in SeqsUpTo(CmdWords, MaxCmdLen), runtime \in PackageManagers \cup {NoRuntime} :
          PxGetCliCommand(cmd, runtime)
    \/ \E elements \in SeqsUpTo(PageElements, MaxElements) : PxParseBlocks(elements)
    \/ \E html \in SeqsUpTo(Hrefs, MaxAnchors) : PxParseComponents(html)
    \/ \E front \in Fronts, gap \in 0..MaxGap, body \in Bodies :
          PxExtractDescription(front, gap, body)
    \/ \E mdxContent \in Documents : PxGetComponentDocs(NameX, mdxContent)

SpecPure == Init /\ [][NextPure]_vars


(***************************************************************************)
(* Properties of fetchWithRetry (checked under SpecFetch)                  *)
(***************************************************************************)
\* C1: with maxAttempts >= 1, a run that returns after k failed attempts
\* (k < maxAttempts) has made exactly k+1 attempts and k delays and returns
\* the response of attempt k+1; a run that throws has made exactly
\* maxAttempts attempts, all failed, and maxAttempts - 1 delays, and throws
\* the failure of the last attempt.
C1_RetryCounts ==
    fw.pc = "run" =>
        /\ fw.f.st = "ok" =>
              /\ Len(fw.errs) < fw.maxAttempts
              /\ fw.attempts = Len(fw.errs) + 1
              /\ Len(fw.delays) = Len(fw.errs)
              /\ fw.f.val = <<Len(fw.errs) + 1>>
        /\ fw.f.st = "failed" =>
              /\ Len(fw.errs) = fw.maxAttempts
              /\ fw.attempts = fw.maxAttempts
              /\ Len(fw.delays) = fw.maxAttempts - 1
              /\ fw.f.err = fw.errs[Len(fw.errs)]
        /\ fw.f.st \in {"inflight", "delay"} => Len(fw.errs) < fw.maxAttempts

\* a source that fails twice and then succeeds, with the default three attempts
C1_Witness ==
    /\ fw.pc = "run"
    /\ fw.maxAttempts = RETRY_ATTEMPTS
    /\ fw.f.st = "ok"
    /\ Len(fw.errs) = 2
    /\ fw.errs[1] # fw.errs[2]

\* C2: the i-th delay lasts initialDelayMs * 2^(i-1); there is one delay per
\* failed attempt except a failed last allowed attempt, so at most
\* maxAttempts - 1, and none after a successful attempt.
C2_Backoff ==
    fw.pc = "run" =>
        /\ \A i \in 1..Len(fw.delays) : fw.delays[i] = fw.initialDelayMs * 2^(i - 1)
        /\ Len(fw.delays) <= fw.maxAttempts - 1
        /\ Len(fw.delays) = IF fw.f.st = "failed" THEN Len(fw.errs) - 1 ELSE Len(fw.errs)
        /\ fw.f.st = "ok" => Len(fw.delays) = fw.attempts - 1
        /\ fw.f.st = "delay" => Len(fw.delays) = fw.attempts

\* the defaults: 500 ms, then 1000 ms, then the third attempt fails for good
C2_Witness ==
    /\ fw.pc = "run"
    /\ fw.initialDelayMs = RETRY_DELAY_MS
    /\ fw.delays = <<500, 1000>>
    /\ fw.f.st = "failed"


(***************************************************************************)
(* Properties of the cache and the handlers (checked under Spec)           *)
(***************************************************************************)
\* slot s takes a new tool call in this step
IsCallStep(s) == calls[s].pc \in {"idle", "done"} /\ calls'[s] # calls[s]

\* the handler of slot s returns in this step, after awaiting the network
Completes(s) == calls[s].pc = "run" /\ calls'[s].pc = "done"

\* the call passed the handler's checks of its arguments
Accepted(c) == Validate(c.tool, c.name, c.runtime) = <<>>

\* a request of the call failed for good
SomeRejected(c) == \E i \in DOMAIN c.f : Rejected(c, i)

IsErrorResponse(c) == Len(c.resp) = 1 /\ c.resp[1].isError

C5_FailedFetch ==
    [][\A s \in AllSlots :
          /\ (Completes(s) /\ SomeRejected(calls'[s])) =>
                /\ resourceCache' = resourceCache
                /\ calls'[s].wrote = {}
                /\ calls'[s].data = <<>>
          /\ (/\ calls[s].pc = "done"
              /\ calls[s].tool \in LookupTools
              /\ SomeRejected(calls[s])
              /\ IsCallStep(s)
              /\ calls'[s].tool \in LookupTools
              /\ calls'[s].name = calls[s].name
              /\ Accepted(calls'[s]))
             => /\ calls'[s].pc = "run"
                /\ calls'[s].net >= 1
                /\ calls'[s].net = Len(calls'[s].f)
                /\ \A i \in DOMAIN calls'[s].f :
                      calls'[s].f[i] = NewFetch(RETRY_ATTEMPTS, RETRY_DELAY_MS)
      ]_vars

\* get-component-docs of x gave up after its third failed attempt, and x is
\* not in the cache
C5_Witness ==
    \E s \in AllSlots :
        /\ calls[s].pc = "done"
        /\ calls[s].tool = "get-component-docs"
        /\ calls[s].name = NameX
        /\ Len(calls[s].f) = 1
        /\ calls[s].f[1].st = "failed"
        /\ calls[s].net = RETRY_ATTEMPTS
        /\ IsErrorResponse(calls[s])
        /\ NameX \notin DOMAIN resourceCache

\* C6: install-component and install-blocks with a non-empty runtime that is
\* not npm, pnpm, yarn or bun return at once a response with the error flag;
\* no request is issued and no Resource is taken from the cache.
C6_InvalidRuntime ==
    \A s \in AllSlots :
        LET c == calls[s] IN
        (c.tool \in InstallTools /\ c.runtime # NoRuntime /\ c.runtime \notin PackageManagers)
        => /\ c.pc = "done"
           /\ IsErrorResponse(c)
           /\ ~c.escaped
           /\ c.net = 0
           /\ c.f = <<>>
           /\ ~c.hit
           /\ c.data = <<>>

\* install-blocks of y with runtime deno while y is cached
C6_Witness ==
    \E s \in AllSlots :
        /\ calls[s].pc = "done"
        /\ calls[s].tool = "install-blocks"
        /\ calls[s].runtime = "deno"
        /\ calls[s].name = NameY
        /\ NameY \in DOMAIN resourceCache
        /\ IsErrorResponse(calls[s])

\* the name holds a character outside [a-zA-Z0-9-_]
HasBadCharacter(name) == \E k \in 1..Len(name) : name[k] \notin AllowedRuns

\* C7 as stated: every lookup tool rejects a name with a character outside
\* [a-zA-Z0-9-_] with an error response before any request is issued.
C7_Original ==
    \A s \in AllSlots :
        LET c == calls[s] IN
        (c.tool \in LookupTools /\ HasBadCharacter(c.name))
        => /\ c.pc = "done"
           /\ IsErrorResponse(c)
           /\ c.net = 0

\* C7, amended: get-component-docs and install-component reject such a name
\* with an error response, issue no request for it and never retry; the
\* block tools get-block-docs and install-blocks do not check the characters
\* of the name: when the name is not cached they run the block aggregate.
C7_ComponentNames ==
    \A s \in AllSlots :
        LET c == calls[s] IN
        HasBadCharacter(c.name) =>
            /\ c.tool \in ComponentTools =>
                  /\ c.pc = "done"
                  /\ IsErrorResponse(c)
                  /\ ~c.escaped
                  /\ c.net = 0
                  /\ c.f = <<>>
                  /\ c.data = <<>>
            /\ (c.tool \in BlockTools /\ Accepted(c) /\ ~c.hit) =>
                  c.net >= Len(BLOCK_PAGES)

\* install-component of x/ with an accepted runtime
C7_Witness ==
    \E s \in AllSlots :
        /\ calls[s].pc = "done"
        /\ calls[s].tool = "install-component"
        /\ calls[s].name = NameBad
        /\ calls[s].runtime = "pnpm"
        /\ IsErrorResponse(calls[s])
        /\ calls[s].net = 0

\* the call failed: in validation, on the network, or in finding what was
\* asked for
Failed(c) ==
    \/ ~Accepted(c)
    \/ SomeRejected(c)
    \/ c.tool \in LookupTools /\ c.data = <<>>
    \/ c.tool \in InstallTools /\ c.data # <<>> /\ c.data[1].commands = <<>>

\* C8: every handler that is done has returned a response and let no
\* exception escape; when the call failed the response has the error flag and
\* a non-empty text; a handler that is not done awaits a request or a timer.
C8_AlwaysResponds ==
    \A s \in AllSlots :
        LET c == calls[s] IN
        /\ c.pc = "done" =>
              /\ ~c.escaped
              /\ Len(c.resp) = 1
              /\ Failed(c) => (c.resp[1].isError /\ c.resp[1].text # <<>>)
        /\ c.pc = "run" =>
              \E i \in DOMAIN c.f : c.f[i].st \in {"inflight", "delay"}

\* list-components after its third attempt failed
C8_Witness ==
    \E s \in AllSlots :
        /\ calls[s].pc = "done"
        /\ calls[s].tool = "list-components"
        /\ Len(calls[s].f) = 1
        /\ calls[s].f[1].st = "failed"
        /\ IsErrorResponse(calls[s])
        /\ ~calls[s].escaped

\* C9: in the block aggregate, as soon as one page has failed for good the
\* handler returns an error response, and neither that step nor the call
\* before it has written a block to the cache.
C9_AllOrNothing ==
    [][\A s \in AllSlots :
          (/\ calls[s].pc = "run"
           /\ calls[s].tool \in AggregateTools
           /\ SomeRejected(calls'[s]))
          => /\ calls'[s].pc = "done"
             /\ IsErrorResponse(calls'[s])
             /\ calls'[s].wrote = {}
             /\ calls[s].wrote = {}
             /\ resourceCache' = resourceCache
      ]_vars

\* list-blocks: the first page was fetched and parsed, the second failed;
\* the block y of the first page is not in the cache
C9_Witness ==
    \E s \in AllSlots :
        /\ calls[s].pc = "done"
        /\ calls[s].tool = "list-blocks"
        /\ Len(calls[s].f) = Len(BLOCK_PAGES)
        /\ Resolved(calls[s], 1)
        /\ Len(calls[s].blocks[1]) > 0
        /\ calls[s].f[2].st = "failed"
        /\ IsErrorResponse(calls[s])
        /\ resourceCache = <<>>

(***************************************************************************)
(* Properties of interleaved calls (checked under SpecConc)                *)
(***************************************************************************)
\* the name is both a component of the raw-content host and a block of a page
SharedName(n) ==
    /\ n \in RemoteComponentsAt(remoteRev)
    /\ \E i \in Pages : n \in NamesOf(parseBlocksFromPage(RemoteBlockPage(i, remoteRev)))

\* slots s and t hold two finished lookups of the same name that both missed
\* the cache and both obtained a Resource: they overlapped in time
ConcurrentLookups(s, t) ==
    /\ s # t
    /\ calls[s].pc = "done" /\ calls[t].pc = "done"
    /\ calls[s].tool \in LookupTools /\ calls[t].tool \in LookupTools
    /\ calls[s].name = calls[t].name
    /\ ~calls[s].hit /\ ~calls[t].hit
    /\ calls[s].data # <<>> /\ calls[t].data # <<>>

\* the names a completing call may write
WriteKeys(c) ==
    IF c.tool \in ComponentTools THEN {c.name}
    ELSE NamesOf(transformBlocks(c.blocks))

ResourceFields == {"name", "description", "doc", "commands", "links", "isBlock"}

\* C10 as stated: two concurrent lookups of the same uncached name return
\* equal Resources and leave the cache holding that Resource.
C10_Original ==
    \A s, t \in AllSlots :
        ConcurrentLookups(s, t) =>
            /\ calls[s].data = calls[t].data
            /\ calls[s].name \in DOMAIN resourceCache
            /\ resourceCache[calls[s].name] = calls[s].data[1]

\* C10, amended: against unchanging remote content, a completing call changes
\* no cache entry but those of the names it writes (its own name for a
\* component lookup, the blocks of its pages for an aggregate); every entry
\* is a whole Resource stored under its own name; and two concurrent lookups
\* of the same uncached name that is not both a component and a block return
\* equal Resources and leave the cache holding that Resource.
C10_Amended ==
    /\ [](\A s, t \in AllSlots :
            (ConcurrentLookups(s, t) /\ ~SharedName(calls[s].name)) =>
                /\ calls[s].data = calls[t].data
                /\ calls[s].name \in DOMAIN resourceCache
                /\ resourceCache[calls[s].name] = calls[s].data[1])
    /\ [](\A k \in DOMAIN resourceCache :
            /\ DOMAIN resourceCache[k] = ResourceFields
            /\ resourceCache[k].name = k)
    /\ [][\A s \in AllSlots :
            Completes(s) =>
                /\ DOMAIN resourceCache' \subseteq DOMAIN resourceCache \cup WriteKeys(calls'[s])
                /\ \A k \in DOMAIN resourceCache \ WriteKeys(calls'[s]) :
                      /\ k \in DOMAIN resourceCache'
                      /\ resourceCache'[k] = resourceCache[k]
        ]_vars

\* two overlapping get-component-docs of x, and w cached by an aggregate
\* before them
C10_Witness ==
    /\ ConcurrentLookups("s1", "s2")
    /\ calls["s1"].name = NameX
    /\ calls["s1"].tool = "get-component-docs"
    /\ calls["s2"].tool = "get-component-docs"
    /\ calls["s1"].data = calls["s2"].data
    /\ NameW \in DOMAIN resourceCache

(***************************************************************************)
(* Properties of the derived commands (checked under Spec)                 *)
(***************************************************************************)
\* C11: every cached Resource that has a commands[0] has a non-empty command
\* for each of npm, pnpm, yarn and bun.
C11_Original ==
    \A n \in DOMAIN resourceCache :
        resourceCache[n].commands # <<>> =>
            /\ DOMAIN resourceCache[n].commands[1] = PackageManagers
            /\ \A r \in PackageManagers : resourceCache[n].commands[1][r] # <<>>

\* C13: an install tool whose Resource has a commands[0] returns exactly
\* commands[0][runtime], or commands[0].npm when the runtime is omitted, with
\* no error flag.
C13_Original ==
    \A s \in AllSlots :
        LET c == calls[s] IN
        (/\ c.pc = "done"
         /\ c.tool \in InstallTools
         /\ Accepted(c)
         /\ c.data # <<>>
         /\ c.data[1].commands # <<>>)
        => /\ Len(c.resp) = 1
           /\ ~c.resp[1].isError
           /\ c.resp[1].text =
                 << c.data[1].commands[1][IF c.runtime = NoRuntime THEN "npm" ELSE c.runtime] >>

(***************************************************************************)
(* Properties of the block aggregate and of the shared cache (checked      *)
(* under Spec)                                                             *)
(***************************************************************************)
\* the page fetch has neither resolved nor failed for good
Pending(c, i) == ~Resolved(c, i) /\ ~Rejected(c, i)

\* C19 as stated: no page fetch of the aggregate is still in flight when
\* list-blocks has returned its response, be it a success or a failure.
C19_Original ==
    \A s \in AllSlots :
        (calls[s].pc = "done" /\ calls[s].tool = "list-blocks") =>
            \A i \in DOMAIN calls[s].f : ~Pending(calls[s], i)

\* C19, amended: the aggregate starts the fetch of every page of BLOCK_PAGES
\* before any of them completes; it succeeds only after every page fetch has
\* completed; it fails as soon as one page fetch has failed for good, and
\* the fetches of the other pages may then still be in flight.
C19_Amended ==
    /\ [][\A s \in AllSlots :
            (IsCallStep(s) /\ calls'[s].tool \in AggregateTools /\ calls'[s].pc = "run") =>
                /\ DOMAIN calls'[s].f = 1..Len(BLOCK_PAGES)
                /\ \A i \in DOMAIN calls'[s].f : calls'[s].f[i].st = "inflight"
        ]_vars
    /\ [][\A s \in AllSlots :
            (calls[s].pc = "run" /\ calls[s].tool \in AggregateTools) =>
                /\ SomeRejected(calls'[s]) =>
                      calls'[s].pc = "done" /\ IsErrorResponse(calls'[s])
                /\ (calls'[s].pc = "done" /\ ~SomeRejected(calls'[s])) =>
                      \A i \in DOMAIN calls'[s].f : Resolved(calls'[s], i)
                /\ (calls'[s].pc = "run") =>
                      \E i \in DOMAIN calls'[s].f : Pending(calls'[s], i)
        ]_vars

\* list-blocks has answered with the failure of page 1 while the fetch of
\* page 2 is still in flight
C19_Witness ==
    \E s \in AllSlots :
        /\ calls[s].pc = "done"
        /\ calls[s].tool = "list-blocks"
        /\ Len(calls[s].f) = Len(BLOCK_PAGES)
        /\ calls[s].f[1].st = "failed"
        /\ calls[s].f[2].st = "inflight"
        /\ IsErrorResponse(calls[s])

\* C20: the cache is keyed by the plain name for components and blocks
\* alike: a component lookup of a name cached as a block returns the block's
\* Resource without fetching the document, and a block lookup of a name
\* cached as a component returns the component's Resource without fetching
\* the block pages.
C20_Shadowing ==
    /\ [](\A n \in DOMAIN resourceCache : resourceCache[n].name = n)
    /\ [][\A s \in AllSlots : \A n \in DOMAIN resourceCache :
            (/\ IsCallStep(s)
             /\ calls'[s].name = n
             /\ Accepted(calls'[s])
             /\ \/ calls'[s].tool \in ComponentTools /\ resourceCache[n].isBlock
                \/ calls'[s].tool \in BlockTools /\ ~resourceCache[n].isBlock)
            => /\ calls'[s].pc = "done"
               /\ calls'[s].f = <<>>
               /\ calls'[s].net = 0
               /\ calls'[s].data = <<resourceCache[n]>>
               /\ resourceCache' = resourceCache
        ]_vars

\* install-blocks of x is answered from the component cached under x, no
\* block page fetched
C20_Witness ==
    \E s \in AllSlots :
        /\ calls[s].pc = "done"
        /\ calls[s].tool = "install-blocks"
        /\ calls[s].name = NameX
        /\ calls[s].hit
        /\ calls[s].net = 0
        /\ calls[s].f = <<>>
        /\ Len(calls[s].data) = 1
        /\ ~calls[s].data[1].isBlock
        /\ ~IsErrorResponse(calls[s])

\* the response of getBlockData when the name is absent after the aggregate
BlockNotFound(name) ==
    ErrorResponse(<<"Block not found. Use list-blocks to see available blocks.">> \o name)

\* C21: a block lookup of a non-empty name that is not cached starts the
\* block aggregate once, one fetch per page; no page fetch that has ended is
\* started again in the call; when every page is read the call reads the
\* cache again and answers from the entry of the name, or with the error
\* Block not found when there is none.
C21_FetchOnce ==
    [][\A s \in AllSlots :
          /\ (/\ IsCallStep(s)
              /\ calls'[s].tool \in BlockTools
              /\ Accepted(calls'[s])
              /\ calls'[s].name \notin DOMAIN resourceCache)
             => /\ calls'[s].pc = "run"
                /\ ~calls'[s].hit
                /\ DOMAIN calls'[s].f = 1..Len(BLOCK_PAGES)
                /\ calls'[s].net = Len(BLOCK_PAGES)
                /\ \A i \in DOMAIN calls'[s].f : calls'[s].f[i].st = "inflight"
          /\ (calls[s].pc = "run" /\ calls[s].tool \in BlockTools)
             => /\ DOMAIN calls'[s].f = DOMAIN calls[s].f
                /\ \A i \in DOMAIN calls[s].f :
                      /\ calls[s].f[i].st \in {"ok", "failed"} => calls'[s].f[i] = calls[s].f[i]
                      /\ calls'[s].f[i].retries <= calls[s].f[i].retries
                /\ (\A i \in DOMAIN calls'[s].f : Resolved(calls'[s], i))
                   => /\ calls'[s].pc = "done"
                      /\ ~calls'[s].escaped
                      /\ IF calls'[s].name \in DOMAIN resourceCache'
                         THEN /\ calls'[s].data = <<resourceCache'[calls'[s].name]>>
                              /\ calls'[s].resp =
                                    LookupResult(calls'[s].tool, calls'[s].name, calls'[s].runtime,
                                                 resourceCache'[calls'[s].name]).resp
                         ELSE /\ calls'[s].data = <<>>
                              /\ calls'[s].resp = <<BlockNotFound(calls'[s].name)>>
      ]_vars

\* get-block-docs of x, which no page holds: one request per page, both
\* read, and the error Block not found
C21_Witness ==
    \E s \in AllSlots :
        /\ calls[s].pc = "done"
        /\ calls[s].tool = "get-block-docs"
        /\ calls[s].name = NameX
        /\ ~calls[s].hit
        /\ calls[s].net = Len(BLOCK_PAGES)
        /\ Len(calls[s].f) = Len(BLOCK_PAGES)
        /\ \A i \in DOMAIN calls[s].f : Resolved(calls[s], i)
        /\ NameX \notin DOMAIN resourceCache
        /\ calls[s].resp = <<BlockNotFound(NameX)>>
        /\ IsErrorResponse(calls[s])

\* C23: every entry of resourceCache is keyed by the name of its Resource,
\* and the entry a component lookup stores is keyed by the very name the
\* caller passed.
C23_KeyedByName ==
    /\ [](\A k \in DOMAIN resourceCache :
            /\ resourceCache[k].name = k
            /\ k # <<>>
            /\ ~resourceCache[k].isBlock => ~HasBadCharacter(k))
    /\ [][\A s \in AllSlots :
            (/\ Completes(s)
             /\ calls'[s].tool \in ComponentTools
             /\ ~SomeRejected(calls'[s]))
            => /\ calls'[s].name \in DOMAIN resourceCache'
               /\ resourceCache'[calls'[s].name].name = calls'[s].name
               /\ ~resourceCache'[calls'[s].name].isBlock
               /\ calls'[s].wrote = {calls'[s].name}
               /\ DOMAIN resourceCache' = DOMAIN resourceCache \cup {calls'[s].name}
        ]_vars

\* the cache holds the component x and the block w, each under its name,
\* after install-component of x fetched the document
C23_Witness ==
    /\ {NameX, NameW} \subseteq DOMAIN resourceCache
    /\ resourceCache[NameX].name = NameX
    /\ ~resourceCache[NameX].isBlock
    /\ resourceCache[NameW].name = NameW
    /\ resourceCache[NameW].isBlock
    /\ \E s \in AllSlots :
          /\ calls[s].pc = "done"
          /\ calls[s].tool = "install-component"
          /\ calls[s].name = NameX
          /\ calls[s].wrote = {NameX}

\* C24: no step of list-components changes resourceCache, and its answer is
\* made of the fetched page alone; a call does not change resourceCache when
\* it begins, while it waits, when its arguments are refused, or when it
\* ends with a failed request.
C24_Frame ==
    [][\A s \in AllSlots :
          /\ (calls'[s] # calls[s] /\ calls'[s].tool = "list-components")
             => /\ resourceCache' = resourceCache
                /\ ~calls'[s].hit
                /\ calls'[s].wrote = {}
                /\ calls'[s].data = <<>>
          /\ (Completes(s) /\ calls'[s].tool = "list-components" /\ ~SomeRejected(calls'[s]))
             => calls'[s].resp =
                   ListComponentsAnswerOf(calls'[s],
                       parseComponentsFromHtml(RemoteComponentsPage(remoteRev))).resp
          /\ IsCallStep(s) => resourceCache' = resourceCache
          /\ (IsCallStep(s) /\ ~Accepted(calls'[s]))
             => /\ calls'[s].pc = "done"
                /\ calls'[s].net = 0
                /\ IsErrorResponse(calls'[s])
          /\ (calls[s].pc = "run" /\ calls'[s].pc = "run") => resourceCache' = resourceCache
          /\ (Completes(s) /\ SomeRejected(calls'[s]))
             => /\ resourceCache' = resourceCache
                /\ calls'[s].wrote = {}
                /\ IsErrorResponse(calls'[s])
      ]_vars

\* list-blocks has failed on page 2 after page 1 was read, and the cache
\* still holds the component x alone
C24_Witness ==
    \E s \in AllSlots :
        /\ calls[s].pc = "done"
        /\ calls[s].tool = "list-blocks"
        /\ Len(calls[s].f) = Len(BLOCK_PAGES)
        /\ Resolved(calls[s], 1)
        /\ calls[s].f[2].st = "failed"
        /\ IsErrorResponse(calls[s])
        /\ DOMAIN resourceCache = {NameX}

(***************************************************************************)
(* Termination (checked under SpecLive)                                    *)
(***************************************************************************)
\* the requests issued so far by one fetchWithRetry run
Requests(f) == RETRY_ATTEMPTS - f.retries + 1
RECURSIVE SumRequests(_)
SumRequests(fs) == IF Len(fs) = 0 THEN 0 ELSE Requests(fs[1]) + SumRequests(Tail(fs))

\* C22: provided every HTTP request completes, every tool call returns a
\* response; it issues at most RETRY_ATTEMPTS requests per URL, for one URL
\* (a component lookup, list-components) or one URL per page of BLOCK_PAGES
\* (a block aggregate).
C22_Terminates ==
    /\ \A s \in AllSlots :
          (calls[s].pc = "run") ~> (calls[s].pc = "done" /\ Len(calls[s].resp) = 1)
    /\ [](\A s \in AllSlots :
            /\ Len(calls[s].f) =
                  IF calls[s].pc = "idle" \/ calls[s].hit \/ ~Accepted(calls[s]) THEN 0
                  ELSE IF calls[s].tool \in AggregateTools THEN Len(BLOCK_PAGES)
                  ELSE 1
            /\ \A i \in DOMAIN calls[s].f : Requests(calls[s].f[i]) \in 1..RETRY_ATTEMPTS
            /\ calls[s].net = SumRequests(calls[s].f)
            /\ calls[s].net <= RETRY_ATTEMPTS * Len(calls[s].f))

\* list-blocks has returned after the third request of page 1 failed, the
\* third request of page 2 issued: RETRY_ATTEMPTS requests per page
C22_Witness ==
    \E s \in AllSlots :
        /\ calls[s].pc = "done"
        /\ calls[s].tool = "list-blocks"
        /\ Len(calls[s].resp) = 1
        /\ Len(calls[s].f) = Len(BLOCK_PAGES)
        /\ calls[s].f[1].st = "failed"
        /\ calls[s].net = RETRY_ATTEMPTS * Len(BLOCK_PAGES)

(***************************************************************************)
(* Properties of the command derivation and the parsers (checked under     *)
(* SpecPure)                                                               *)
(***************************************************************************)
\* a canonical command: it starts with the prefix token npx, and npx is no
\* other word of it (other words may hold npx inside)
Canonical(cmd) ==
    /\ Len(cmd) > 0
    /\ cmd[1] = "npx"
    /\ \A k \in 2..Len(cmd) : cmd[k] # "npx"

RunnerPrefix(runtime) ==
    CASE runtime = "pnpm" -> <<"pnpm", "dlx">>
      [] runtime = "yarn" -> <<"yarn", "dlx">>
      [] runtime = "bun" -> <<"bunx">>
      [] OTHER -> <<"npx">>

\* C12: for a canonical command, getCliCommand with npm (or no runtime)
\* returns the command itself, and with pnpm, yarn or bun the command with its
\* prefix token replaced by pnpm dlx, yarn dlx or bunx and every other word
\* unchanged, in the same order.
C12_PrefixOnly ==
    (px.op = "getCliCommand" /\ Canonical(px.cmd)) =>
        /\ px.out = RunnerPrefix(px.runtime) \o Tail(px.cmd)
        /\ px.runtime \in {NoRuntime, "npm"} => px.out = px.cmd

\* the derivation for yarn of a command whose argument holds npx inside
C12_Witness ==
    /\ px.op = "getCliCommand"
    /\ px.cmd = <<"npx", "add", "npx-ui">>
    /\ px.runtime = "yarn"
    /\ px.out = <<"yarn", "dlx", "add", "npx-ui">>

\* the element makes a valid block: an id that is not a decoy's, a command and
\* a code sample
ValidElement(el) ==
    /\ el.id # <<>>
    /\ ~StartsWithRadix(el.id)
    /\ el.command # <<>>
    /\ el.code # <<>>

\* C16: parseBlocksFromPage returns one Block for each element that has an id
\* not starting with radix-, a command and a code sample, and none for any
\* other element; every Block has a non-empty name, command and code.
C16_Original ==
    px.op = "parseBlocksFromPage" =>
        /\ \A k \in 1..Len(px.out) :
              /\ px.out[k].name # <<>>
              /\ px.out[k].command # <<>>
              /\ px.out[k].doc # <<>>
        /\ Len(px.out) = Len(SelectSeq(px.elements, ValidElement))

\* C14: get-component-docs, once the document of the component was fetched,
\* returns the whole raw document as text/markdown without the error flag
\* whenever the document or the description is non-empty, whatever the
\* extraction of description, links and command found; it returns the error
\* "No documentation found" only when description and doc are both empty.
C14_RawDocument ==
    px.op = "getComponentDocs" =>
        /\ px.call.pc = "done"
        /\ ~px.call.escaped
        /\ Len(px.call.resp) = 1
        /\ Len(px.call.data) = 1
        /\ px.call.data[1].doc = px.mdxContent
        /\ px.call.resp[1].isError <=>
              (px.call.data[1].description = <<>> /\ px.call.data[1].doc = <<>>)
        /\ px.call.resp[1].isError =>
              px.call.resp[1].text = << <<"No documentation found for component">> \o px.component >>
        /\ ~px.call.resp[1].isError =>
              px.call.resp[1] = [isError |-> FALSE, text |-> px.mdxContent,
                                 mimeType |-> "text/markdown"]

\* a document from which no description, link or command is extracted is
\* returned as it is
C14_Witness ==
    /\ px.op = "getComponentDocs"
    /\ px.mdxContent = << <<"Plain", "x">> >>
    /\ px.call.data[1].description = <<>>
    /\ px.call.data[1].links = <<>>
    /\ px.call.data[1].commands = <<>>
    /\ px.call.resp[1].text = px.mdxContent
    /\ px.call.resp[1].mimeType = "text/markdown"
    /\ ~px.call.resp[1].isError

\* the anchor is one a[href^="/docs/components/"] selects
IsComponentHref(h) == Len(h) >= 3 /\ h[1] = "docs" /\ h[2] = "components"
NoAnchors(html) == \A k \in 1..Len(html) : ~IsComponentHref(html[k])
\* the element is one the block scraper takes
IsBlockElement(el) == el.id # <<>> /\ ~StartsWithRadix(el.id)
NoBlocks(elements) == \A k \in 1..Len(elements) : ~IsBlockElement(elements[k])
\* the response carrying an empty JSON array
EmptyList == createResponse(<<>>, FALSE, "")

\* the block half of C15: a page without a block element gives no Block and
\* list-blocks answers with an empty array
NoBlocksNoError ==
    (px.op = "parseBlocksFromPage" /\ NoBlocks(px.elements)) =>
        /\ px.out = <<>>
        /\ px.call.pc = "done"
        /\ px.call.resp = <<EmptyList>>

\* C15 as stated: a page with no matching anchor, or no matching block
\* element, an empty page body included, gives an empty sequence and no
\* error, and the list tool answers with an empty array without the error flag.
C15_Original ==
    /\ NoBlocksNoError
    /\ (px.op = "parseComponentsFromHtml" /\ NoAnchors(px.html)) =>
          /\ ~px.out.threw
          /\ px.out.names = <<>>
          /\ px.call.resp = <<EmptyList>>

\* C15, amended: the same for every page content that is not empty;
\* parseComponentsFromHtml throws Invalid HTML content on an empty page body
\* and list-components then answers with an error response.
C15_Amended ==
    /\ NoBlocksNoError
    /\ (px.op = "parseComponentsFromHtml" /\ NoAnchors(px.html) /\ px.html # <<>>) =>
          /\ ~px.out.threw
          /\ px.out.names = <<>>
          /\ px.call.resp = <<EmptyList>>
    /\ (px.op = "parseComponentsFromHtml" /\ px.html = <<>>) =>
          /\ px.out.threw
          /\ px.call.pc = "done"
          /\ ~px.call.escaped
          /\ px.call.resp =
                << handleError(<<"Invalid HTML content">>, "Error fetching components list") >>

\* a page whose only anchor leads elsewhere is listed as an empty array
C15_Witness ==
    /\ px.op = "parseComponentsFromHtml"
    /\ px.html = << <<"docs", "installation">> >>
    /\ px.out = [threw |-> FALSE, names |-> <<>>]
    /\ px.call.resp = <<EmptyList>>

\* the capture of the first description rule, in the fixed order, that
\* matches the frontmatter; the first body line when none does
DescriptionExpected(s, body) ==
    IF PatternMatch(1, s) # <<>> THEN Trim(PatternMatch(1, s)[1])
    ELSE IF PatternMatch(2, s) # <<>> THEN Trim(PatternMatch(2, s)[1])
    ELSE IF PatternMatch(3, s) # <<>> THEN Trim(PatternMatch(3, s)[1])
    ELSE IF body # <<>> THEN body[1]
    ELSE <<>>

\* C17: extractDescription returns the trimmed capture of the first of the
\* three rules, in their fixed order, that matches; when none matches, the
\* first body line after the frontmatter; the empty string when there is none.
C17_Original ==
    px.op = "extractDescription" =>
        px.out = DescriptionExpected(Flatten(px.front), px.body)

\* the number of times w occurs in the sequence
Count(seq, w) == Cardinality({k \in 1..Len(seq) : seq[k] = w})
\* the final segments of the component hrefs of the page, in page order
FinalSegments(html) ==
    [k \in 1..Len(html) |-> IF IsComponentHref(html[k]) THEN html[k][Len(html[k])] ELSE ""]

\* C18: parseComponentsFromHtml returns exactly the final path segments of
\* the hrefs under /docs/components/ (an href ending in the slash has none),
\* each as often as it occurs, in ascending order.
C18_SortedSegments ==
    (px.op = "parseComponentsFromHtml" /\ ~px.out.threw) =>
        /\ \A k \in 1..(Len(px.out.names) - 1) :
              WordCode(px.out.names[k]) <= WordCode(px.out.names[k + 1])
        /\ \A w \in {"w", "x", "y", "docs", "components", "installation"} :
              Count(px.out.names, w) = Count(FinalSegments(px.html), w)
        /\ Count(px.out.names, "") = 0

\* y, a page outside the components, then x: x comes out first
C18_Witness ==
    /\ px.op = "parseComponentsFromHtml"
    /\ px.html = << <<"docs", "components", "y">>, <<"docs", "installation">>,
                    <<"docs", "components", "x">> >>
    /\ px.out.names = <<"x", "y">>

====
